---- MODULE Spec2Model ----
(***************************************************************************)
(* Model of pkg/metricsstore: the default MetricsStore, its four           *)
(* instruments, its private registry, Start / Stop / Handler, the scrapes  *)
(* served by the returned handler and the collaborators' calls on the      *)
(* instrument handles.                                                     *)
(*                                                                         *)
(* Durations and bucket boundaries are written in hundredths of a second   *)
(* (0.1 s = 10, 0.25 s = 25, 0.3 s = 30, 40 s = 4000), so that the float   *)
(* comparisons of the histogram become integer comparisons.                *)
(* A fully qualified metric name is kept as the triple                     *)
(* <<namespace, subsystem, name>> that the exposition joins with "_":      *)
(* <<"osm", "k8s", "api_event_count">> is osm_k8s_api_event_count.         *)
(***************************************************************************)
EXTENDS Integers, Sequences, FiniteSets, TLC

VARIABLES K8sAPIEventCounter, ProxyConnectCount, InjectorSidecarCount,
          InjectorRqTime, registry, promhttp, ret, lastSet, scrapes, observations

instruments == <<K8sAPIEventCounter, ProxyConnectCount, InjectorSidecarCount, InjectorRqTime>>

vars == <<K8sAPIEventCounter, ProxyConnectCount, InjectorSidecarCount,
          InjectorRqTime, registry, promhttp, ret, lastSet, scrapes, observations>>

\* what the scraper and the collaborators have seen and done so far
history == <<lastSet, scrapes, observations>>

(***************************************************************************)
(* Bounds of the model.                                                    *)
(***************************************************************************)
MaxInc == 2

MaxSidecar == 1

MaxObs == 1

MaxScrapes == 2

\* the goroutines that call K8sAPIEventCounter.Inc() without locking
Callers == {"watcher1", "watcher2"}

\* arguments of ProxyConnectCount.Set
GaugeValues == {-1, 2}

\* label values of "success" used by the injector webhook
LabelValues == {"true", "false"}

\* observed durations: on a boundary (0.25), 0.3, and above every boundary
ObsValues == {25, 30, 5000}

(***************************************************************************)
(* Instrument declarations of init().                                      *)
(***************************************************************************)
metricsRootNamespace == "osm"

BuildFQName(namespace, subsystem, name) == <<namespace, subsystem, name>>

K8sAPIEventCounterDesc ==
    [id |-> "K8sAPIEventCounter", kind |-> "counter",
     fqName |-> BuildFQName(metricsRootNamespace, "k8s", "api_event_count"),
     help |-> "represents the number of events received from the Kubernetes API Server",
     labels |-> <<>>]

ProxyConnectCountDesc ==
    [id |-> "ProxyConnectCount", kind |-> "gauge",
     fqName |-> BuildFQName(metricsRootNamespace, "proxy", "connect_count"),
     help |-> "represents the number of proxies connected to OSM controller",
     labels |-> <<>>]

InjectorSidecarCountDesc ==
    [id |-> "InjectorSidecarCount", kind |-> "counter",
     fqName |-> BuildFQName(metricsRootNamespace, "injector", "injector_sidecar_count"),
     help |-> "Counts the number of injector webhooks dealt with over time",
     labels |-> <<>>]

InjectorRqTimeDesc ==
    [id |-> "InjectorRqTime", kind |-> "histogramvec",
     fqName |-> BuildFQName(metricsRootNamespace, "injector", "injector_rq_time"),
     help |-> "Histogram for time taken to perform sidecar injection",
     labels |-> <<"success">>]

Buckets == <<10, 25, 50, 100, 250, 500, 1000, 2000, 4000>>

(***************************************************************************)
(* The two collectors promhttp.InstrumentMetricHandler adds to the         *)
(* registry it is given.                                                   *)
(***************************************************************************)
RequestsTotalDesc ==
    [id |-> "promhttp_requests_total", kind |-> "countervec",
     fqName |-> BuildFQName("promhttp", "metric_handler", "requests_total"),
     help |-> "Total number of scrapes by HTTP status code.",
     labels |-> <<"code">>]

InFlightDesc ==
    [id |-> "promhttp_requests_in_flight", kind |-> "gauge",
     fqName |-> BuildFQName("promhttp", "metric_handler", "requests_in_flight"),
     help |-> "Current number of scrapes being served.",
     labels |-> <<>>]

Business == {K8sAPIEventCounterDesc, ProxyConnectCountDesc,
             InjectorSidecarCountDesc, InjectorRqTimeDesc}

Meta == {RequestsTotalDesc, InFlightDesc}

BusinessNames == {d.fqName : d \in Business}

(***************************************************************************)
(* prometheus.Registry: the collectors registered, by identity, and the    *)
(* label-names/help each name was first registered with (kept across       *)
(* Unregister).                                                            *)
(***************************************************************************)
NewRegistry == [collectorsByID |-> {}, dimHashesByName |-> {}]

DimHash(d) == <<d.fqName, d.labels, d.help>>

\* a registry that accepts a collector it already holds
RegisterIdempotent(reg, d) ==
    IF \E h \in reg.dimHashesByName : h[1] = d.fqName /\ h # DimHash(d)
    THEN [reg |-> reg, err |-> "inconsistent descriptor"]
    ELSE [reg |-> [collectorsByID |-> reg.collectorsByID \cup {d.id},
                   dimHashesByName |-> reg.dimHashesByName \cup {DimHash(d)}],
          err |-> "nil"]

\* a registry that refuses a name it has seen before, even after Unregister
RegisterOnce(reg, d) ==
    IF d.id \in reg.collectorsByID
    THEN [reg |-> reg, err |-> "AlreadyRegisteredError"]
    ELSE IF \E h \in reg.dimHashesByName : h[1] = d.fqName
    THEN [reg |-> reg, err |-> "inconsistent descriptor"]
    ELSE [reg |-> [collectorsByID |-> reg.collectorsByID \cup {d.id},
                   dimHashesByName |-> reg.dimHashesByName \cup {DimHash(d)}],
          err |-> "nil"]

\* Register: [reg, err]
Register(reg, d) ==
    IF d.id \in reg.collectorsByID
    THEN [reg |-> reg, err |-> "AlreadyRegisteredError"]
    ELSE IF \E h \in reg.dimHashesByName : h[1] = d.fqName /\ h # DimHash(d)
    THEN [reg |-> reg, err |-> "inconsistent descriptor"]
    ELSE [reg |-> [collectorsByID |-> reg.collectorsByID \cup {d.id},
                   dimHashesByName |-> reg.dimHashesByName \cup {DimHash(d)}],
          err |-> "nil"]

\* Unregister: the boolean result is dropped by Stop
Unregister(reg, d) ==
    [reg EXCEPT !.collectorsByID = @ \ {d.id}]

\* the order of the MustRegister calls of Start
StartOrder == <<K8sAPIEventCounterDesc, ProxyConnectCountDesc,
                InjectorSidecarCountDesc, InjectorRqTimeDesc>>

\* the order of the Unregister calls of Stop
StopOrder == <<K8sAPIEventCounterDesc, ProxyConnectCountDesc,
               InjectorSidecarCountDesc, InjectorRqTimeDesc>>

RECURSIVE MustRegisterAll(_, _)
\* MustRegister one after the other; the first error panics and the
\* remaining calls are not made
MustRegisterAll(reg, ds) ==
    IF ds = <<>> THEN [reg |-> reg, err |-> "nil"]
    ELSE LET r == Register(reg, Head(ds))
         IN  IF r.err # "nil" THEN r
             ELSE MustRegisterAll(r.reg, Tail(ds))

RECURSIVE UnregisterAllButLast(_, _)
\* a Stop that forgets its last Unregister call
UnregisterAllButLast(reg, ds) ==
    IF Len(ds) <= 1 THEN reg
    ELSE UnregisterAllButLast(Unregister(reg, Head(ds)), Tail(ds))

RECURSIVE UnregisterAll(_, _)
UnregisterAll(reg, ds) ==
    IF ds = <<>> THEN reg
    ELSE UnregisterAll(Unregister(reg, Head(ds)), Tail(ds))

Registered(d) == d.id \in registry.collectorsByID

Started == \A d \in Business : Registered(d)

Stopped == \A d \in Business : ~Registered(d)

HandlerObtained == \A d \in Meta : Registered(d)

(***************************************************************************)
(* Instrument arithmetic.                                                  *)
(***************************************************************************)
\* an increment that counts twice
CounterIncTwice(v) == v + 2

CounterInc(v) == v + 1

\* a set that adds to the value held
GaugeAdd(old, v) == old + v

GaugeSet(old, v) == v

NewHistogram == [buckets |-> [i \in 1..Len(Buckets) |-> 0], count |-> 0, sum |-> 0]

\* sort.SearchFloat64s(upperBounds, v): the first boundary >= v, or one past
\* the last
FindBucket(v) ==
    IF \E i \in 1..Len(Buckets) : Buckets[i] >= v
    THEN CHOOSE i \in 1..Len(Buckets) :
            Buckets[i] >= v /\ \A j \in 1..(i - 1) : Buckets[j] < v
    ELSE Len(Buckets) + 1

HistogramObserve(h, v) ==
    LET i == FindBucket(v)
    IN  [buckets |-> [j \in 1..Len(Buckets) |->
                        IF j = i THEN h.buckets[j] + 1 ELSE h.buckets[j]],
         count |-> h.count + 1,
         sum |-> h.sum + v]

\* GetMetricWithLabelValues: the child of the label value, created on first use
WithLabelValues(vec, lv) ==
    IF lv \in DOMAIN vec THEN vec
    ELSE [l \in DOMAIN vec \cup {lv} |-> IF l = lv THEN NewHistogram ELSE vec[l]]

RECURSIVE SumTo(_, _)
SumTo(f, n) == IF n = 0 THEN 0 ELSE f[n] + SumTo(f, n - 1)

\* a rendering that emits each bucket's own count
HistogramWritePerBucket(h) ==
    [cumulative |-> h.buckets, count |-> h.count, sum |-> h.sum]

\* histogram.Write: the cumulative count of every declared boundary
HistogramWrite(h) ==
    [cumulative |-> [i \in 1..Len(Buckets) |-> SumTo(h.buckets, i)],
     count |-> h.count,
     sum |-> h.sum]

TotalObs(vec) ==
    LET RECURSIVE Tot(_)
        Tot(S) == IF S = {} THEN 0
                  ELSE LET l == CHOOSE x \in S : TRUE
                       IN  vec[l].count + Tot(S \ {l})
    IN  Tot(DOMAIN vec)

(***************************************************************************)
(* Registry.Gather as rendered by promhttp.HandlerFor: one family per      *)
(* registered collector that collects at least one metric.                 *)
(***************************************************************************)
\* a vector that emits its family even without children
CollectsAlways(d, rq) == TRUE

CollectsSomething(d, rq) ==
    IF d.kind = "histogramvec" THEN DOMAIN rq # {} ELSE TRUE

FamilyValue(d, ev, px, sc, rq, meta) ==
    CASE d.id = "K8sAPIEventCounter" -> ev
      [] d.id = "ProxyConnectCount" -> px
      [] d.id = "InjectorSidecarCount" -> sc
      [] d.id = "InjectorRqTime" -> [l \in DOMAIN rq |-> HistogramWrite(rq[l])]
      [] d.id = "promhttp_requests_total" -> meta.requestsTotal
      [] d.id = "promhttp_requests_in_flight" -> meta.inFlight

\* a handler that renders the instruments whether registered or not
GatherUnregistered(reg, ev, px, sc, rq, meta) ==
    LET fams == {d \in Business \cup Meta :
                    (d \in Business \/ d.id \in reg.collectorsByID)
                    /\ CollectsSomething(d, rq)}
    IN  [n \in {d.fqName : d \in fams} |->
            FamilyValue(CHOOSE d \in fams : d.fqName = n, ev, px, sc, rq, meta)]

Gather(reg, ev, px, sc, rq, meta) ==
    LET fams == {d \in Business \cup Meta :
                    d.id \in reg.collectorsByID /\ CollectsSomething(d, rq)}
    IN  [n \in {d.fqName : d \in fams} |->
            FamilyValue(CHOOSE d \in fams : d.fqName = n, ev, px, sc, rq, meta)]

EmptyBody == [n \in {} |-> 0]

\* the most recent call and how it ended; op is "Start", "Stop", "Handler",
\* "Scrape", or "instrument" for a call on one of the instrument handles
Returned(op) == [op |-> op, kind |-> "returned", err |-> "nil", body |-> EmptyBody]

Panicked(op, e) == [op |-> op, kind |-> "panic", err |-> e, body |-> EmptyBody]

Response(b) == [op |-> "Scrape", kind |-> "response", err |-> "nil", body |-> b]

NoObservations == [o \in LabelValues \X ObsValues |-> 0]

NoScrape == [reported |-> -1, before |-> -1, between |-> 0, since |-> 0]

(***************************************************************************)
(* init()                                                                  *)
(***************************************************************************)
Init ==
    /\ K8sAPIEventCounter = 0
    /\ ProxyConnectCount = 0
    /\ InjectorSidecarCount = 0
    /\ InjectorRqTime = [l \in {} |-> NewHistogram]
    /\ registry = NewRegistry
    /\ promhttp = [requestsTotal |-> 0, inFlight |-> 0]
    /\ ret = Returned("init")
    /\ lastSet = <<>>
    /\ scrapes = NoScrape
    /\ observations = NoObservations

(***************************************************************************)
(* Start / Stop / Handler                                                  *)
(***************************************************************************)
\* a Start that builds the instruments anew
StartRecreating ==
    LET r == MustRegisterAll(registry, StartOrder)
    IN  /\ registry' = r.reg
        /\ ret' = IF r.err = "nil" THEN Returned("Start") ELSE Panicked("Start", r.err)
        /\ K8sAPIEventCounter' = 0
        /\ ProxyConnectCount' = 0
        /\ InjectorSidecarCount' = 0
        /\ InjectorRqTime' = [l \in {} |-> NewHistogram]
        /\ UNCHANGED <<promhttp, history>>

Start ==
    LET r == MustRegisterAll(registry, StartOrder)
    IN  /\ registry' = r.reg
        /\ ret' = IF r.err = "nil" THEN Returned("Start") ELSE Panicked("Start", r.err)
        /\ UNCHANGED <<instruments, promhttp, history>>

\* a Stop that panics when an instrument was not registered
StopStrict ==
    /\ registry' = UnregisterAll(registry, StopOrder)
    /\ ret' = IF Started THEN Returned("Stop") ELSE Panicked("Stop", "not registered")
    /\ UNCHANGED <<instruments, promhttp, history>>

Stop ==
    /\ registry' = UnregisterAll(registry, StopOrder)
    /\ ret' = Returned("Stop")
    /\ UNCHANGED <<instruments, promhttp, history>>

\* InstrumentMetricHandler registers its two collectors and keeps the ones
\* already registered on AlreadyRegisteredError
InstrumentMetricHandler(reg) ==
    LET r1 == Register(reg, RequestsTotalDesc)
        r2 == Register(r1.reg, InFlightDesc)
    IN  r2.reg

Handler ==
    /\ registry' = InstrumentMetricHandler(registry)
    /\ ret' = Returned("Handler")
    /\ UNCHANGED <<instruments, promhttp, history>>

(***************************************************************************)
(* One scrape served by the handler: the in-flight gauge is raised around  *)
(* the gathering, the request counter is incremented after it.             *)
(***************************************************************************)
ScrapeBody ==
    Gather(registry, K8sAPIEventCounter, ProxyConnectCount, InjectorSidecarCount,
           InjectorRqTime, [promhttp EXCEPT !.inFlight = @ + 1])

Scrape ==
    /\ HandlerObtained
    /\ promhttp.requestsTotal < MaxScrapes
    /\ LET b == ScrapeBody
           n == K8sAPIEventCounterDesc.fqName
       IN  /\ ret' = Response(b)
           /\ scrapes' = IF n \in DOMAIN b
                         THEN [reported |-> b[n], before |-> scrapes.reported,
                               between |-> scrapes.since, since |-> 0]
                         ELSE scrapes
    /\ promhttp' = [promhttp EXCEPT !.requestsTotal = @ + 1]
    /\ UNCHANGED <<instruments, registry, lastSet, observations>>

(***************************************************************************)
(* Collaborators' calls on the instrument handles.                         *)
(***************************************************************************)
K8sInc(c) ==
    /\ K8sAPIEventCounter < MaxInc
    /\ K8sAPIEventCounter' = CounterInc(K8sAPIEventCounter)
    /\ scrapes' = [scrapes EXCEPT !.since = @ + 1]
    /\ ret' = Returned("instrument")
    /\ UNCHANGED <<ProxyConnectCount, InjectorSidecarCount, InjectorRqTime,
                   registry, promhttp, lastSet, observations>>

ProxySet(v) ==
    /\ ProxyConnectCount' = GaugeSet(ProxyConnectCount, v)
    /\ lastSet' = <<v>>
    /\ ret' = Returned("instrument")
    /\ UNCHANGED <<K8sAPIEventCounter, InjectorSidecarCount, InjectorRqTime,
                   registry, promhttp, scrapes, observations>>

SidecarInc ==
    /\ InjectorSidecarCount < MaxSidecar
    /\ InjectorSidecarCount' = CounterInc(InjectorSidecarCount)
    /\ ret' = Returned("instrument")
    /\ UNCHANGED <<K8sAPIEventCounter, ProxyConnectCount, InjectorRqTime,
                   registry, promhttp, lastSet, scrapes, observations>>

RqTimeWithLabelValues(lv) ==
    /\ lv \notin DOMAIN InjectorRqTime
    /\ InjectorRqTime' = WithLabelValues(InjectorRqTime, lv)
    /\ ret' = Returned("instrument")
    /\ UNCHANGED <<K8sAPIEventCounter, ProxyConnectCount, InjectorSidecarCount,
                   registry, promhttp, lastSet, scrapes, observations>>

RqTimeObserve(lv, v) ==
    /\ TotalObs(InjectorRqTime) < MaxObs
    /\ LET vec == WithLabelValues(InjectorRqTime, lv)
       IN  InjectorRqTime' = [vec EXCEPT ![lv] = HistogramObserve(@, v)]
    /\ observations' = [observations EXCEPT ![<<lv, v>>] = @ + 1]
    /\ ret' = Returned("instrument")
    /\ UNCHANGED <<K8sAPIEventCounter, ProxyConnectCount, InjectorSidecarCount,
                   registry, promhttp, lastSet, scrapes>>

Next ==
    \/ Start
    \/ Stop
    \/ Handler
    \/ Scrape
    \/ \E c \in Callers : K8sInc(c)
    \/ \E v \in GaugeValues : ProxySet(v)
    \/ SidecarInc
    \/ \E lv \in LabelValues : RqTimeWithLabelValues(lv)
    \/ \E lv \in LabelValues, v \in ObsValues : RqTimeObserve(lv, v)

Spec == Init /\ [][Next]_vars

(***************************************************************************)
(* Names of the four business metrics as they appear in a scrape.          *)
(***************************************************************************)
EventName == K8sAPIEventCounterDesc.fqName

ProxyName == ProxyConnectCountDesc.fqName

SidecarName == InjectorSidecarCountDesc.fqName

RqTimeName == InjectorRqTimeDesc.fqName

Scraped == ret.op = "Scrape" /\ ret.kind = "response"

\* number of observations recorded under label l with a value <= b
ObservedUpTo(l, b) ==
    LET RECURSIVE Cnt(_)
        Cnt(S) == IF S = {} THEN 0
                  ELSE LET v == CHOOSE x \in S : TRUE
                       IN  (IF v <= b THEN observations[<<l, v>>] ELSE 0) + Cnt(S \ {v})
    IN  Cnt(ObsValues)

ObservedTotal ==
    LET RECURSIVE Cnt(_)
        Cnt(S) == IF S = {} THEN 0
                  ELSE LET o == CHOOSE x \in S : TRUE
                       IN  observations[o] + Cnt(S \ {o})
    IN  Cnt(LabelValues \X ObsValues)

\* C1 as stated: a scrape of a started store contains all four metric
\* names, whether or not anything was recorded on any instrument.
C1_AllFourNamesAlways ==
    (Scraped /\ Started) => BusinessNames \subseteq DOMAIN ret.body

\* C1 as amended: a scrape of a started store contains the three scalar
\* metric names always, and osm_injector_injector_rq_time exactly when
\* InjectorRqTime has at least one label partition.
C1_NamesAfterStart ==
    (Scraped /\ Started) =>
        /\ {EventName, ProxyName, SidecarName} \subseteq DOMAIN ret.body
        /\ (RqTimeName \in DOMAIN ret.body) <=> (DOMAIN InjectorRqTime # {})

C1_Witness ==
    /\ Scraped /\ Started
    /\ DOMAIN InjectorRqTime = {}
    /\ RqTimeName \notin DOMAIN ret.body
    /\ EventName \in DOMAIN ret.body

\* C2: a scrape of a stopped store contains none of the four metric names,
\* whatever the instruments hold.
C2_StoppedHidesAll ==
    (Scraped /\ Stopped) => DOMAIN ret.body \cap BusinessNames = {}

\* a scrape after Start, mutations and Stop
C2_Witness ==
    /\ Scraped /\ Stopped
    /\ DimHash(K8sAPIEventCounterDesc) \in registry.dimHashesByName
    /\ K8sAPIEventCounter > 0
    /\ DOMAIN InjectorRqTime # {}
    /\ DOMAIN ret.body \cap BusinessNames = {}

\* C3: Start on a started store ends in the panic of MustRegister with the
\* duplicate-registration error, and never returns normally.
C3_SecondStartPanics ==
    [][(Start /\ Started) =>
          (ret'.kind = "panic" /\ ret'.err = "AlreadyRegisteredError")]_vars

\* a second Start after scrapes and mutations
C3_Witness ==
    /\ ret.op = "Start" /\ ret.kind = "panic" /\ ret.err = "AlreadyRegisteredError"
    /\ Started
    /\ promhttp.requestsTotal > 0
    /\ K8sAPIEventCounter > 0

\* C4: Stop always returns normally and leaves the store stopped; on a store
\* whose instruments are not registered it leaves the registry unchanged.
C4_StopNeverFails ==
    [][Stop => (/\ ret'.kind = "returned"
                /\ Stopped'
                /\ (Stopped => registry' = registry))]_vars

\* Stop returned on a store that was never started
C4_Witness ==
    /\ ret.op = "Stop" /\ ret.kind = "returned"
    /\ DimHash(K8sAPIEventCounterDesc) \notin registry.dimHashesByName
    /\ Stopped

\* C5: the value a scrape reports for the event counter is the value the
\* previous scrape reported plus the number of increments completed between
\* the two.
C5_ExactlyN ==
    scrapes.before # -1 => scrapes.reported = scrapes.before + scrapes.between

C5_Witness ==
    /\ Scraped /\ Started
    /\ scrapes.before # -1
    /\ scrapes.between = 2
    /\ ret.body[EventName] = scrapes.before + 2

\* C6: a step made by Start, Stop, Handler or a scrape (ret'.op names the
\* call that made the step) leaves the four instruments as they are, and a
\* scrape of a started store reports the values they hold.
C6_OnlyCollaboratorsWrite ==
    [][/\ ret'.op \in {"Start", "Stop", "Handler", "Scrape"} => UNCHANGED instruments
       /\ (ret'.op = "Scrape" /\ Started) =>
            /\ ret'.body[EventName] = K8sAPIEventCounter'
            /\ ret'.body[ProxyName] = ProxyConnectCount'
            /\ ret'.body[SidecarName] = InjectorSidecarCount'
            /\ \A l \in DOMAIN InjectorRqTime' :
                  /\ ret'.body[RqTimeName][l].count = InjectorRqTime'[l].count
                  /\ ret'.body[RqTimeName][l].sum = InjectorRqTime'[l].sum]_vars

\* Start returned on a store that accumulated values on every instrument
C6_Witness ==
    /\ ret.op = "Start" /\ ret.kind = "returned"
    /\ K8sAPIEventCounter > 0
    /\ InjectorSidecarCount > 0
    /\ ProxyConnectCount # 0
    /\ ObservedTotal > 0

\* C7: in a scrape, the cumulative count of each partition at each declared
\* boundary is the number of observations with that label and a value <= the
\* boundary; one observation of 0.3 under "true" gives 0 at 0.1 and 0.25, 1
\* from 0.5 on, and nothing under "false".
C7_CumulativeBuckets ==
    (Scraped /\ RqTimeName \in DOMAIN ret.body) =>
        /\ \A l \in DOMAIN ret.body[RqTimeName] : \A i \in 1..Len(Buckets) :
              ret.body[RqTimeName][l].cumulative[i] = ObservedUpTo(l, Buckets[i])
        /\ \A l \in LabelValues \ DOMAIN ret.body[RqTimeName] : \A v \in ObsValues :
              observations[<<l, v>>] = 0
        /\ (observations = [NoObservations EXCEPT ![<<"true", 30>>] = 1]) =>
              /\ ret.body[RqTimeName]["true"].cumulative = <<0, 0, 1, 1, 1, 1, 1, 1, 1>>
              /\ "false" \in DOMAIN ret.body[RqTimeName] =>
                    ret.body[RqTimeName]["false"].count = 0

C7_Witness ==
    /\ Scraped /\ Started
    /\ observations = [NoObservations EXCEPT ![<<"true", 30>>] = 1]
    /\ ret.body[RqTimeName]["true"].cumulative = <<0, 0, 1, 1, 1, 1, 1, 1, 1>>

\* C8: a scrape of a started store reports for the proxy gauge the argument
\* of the most recent Set.
C8_LastWriteWins ==
    (Scraped /\ Started /\ lastSet # <<>>) => ret.body[ProxyName] = lastSet[1]

C8_Witness ==
    /\ Scraped /\ Started
    /\ lastSet = <<2>>
    /\ ProxyConnectCount = 2
    /\ ret.body[ProxyName] = 2

\* C9: the business instruments registered are none or all four, and a Start
\* that panics leaves the registry as it was.
C9_AllOrNothing ==
    /\ [](Started \/ Stopped)
    /\ [][(Start /\ ret'.kind = "panic") => registry' = registry]_vars

\* a Start has just panicked and all four instruments are still registered
C9_Witness ==
    /\ ret.op = "Start" /\ ret.kind = "panic"
    /\ registry.collectorsByID = {d.id : d \in Business}

\* C10: Start returns normally and exposes the four instruments whenever the
\* store is stopped, and panics exactly when the store is already started.
C10_StartIffStopped ==
    [][Start => (/\ (ret'.kind = "panic") <=> Started
                 /\ Stopped => (ret'.kind = "returned" /\ Started'))]_vars

\* Start returned on a store that had been started and stopped before
C10_Witness ==
    /\ ret.op = "Start" /\ ret.kind = "returned"
    /\ scrapes.reported # -1
    /\ Started

====
